---- MODULE Spec2Model ----
(***************************************************************************)
(* Model of particlepy.Simulation (src/particlepy/__init__.py) and of the  *)
(* host operations on it (src/main.py).                                    *)
(*                                                                         *)
(* Numbers.  Positions and velocities start as Python ints and become      *)
(* floats once bounce() multiplies by 0.5; every value that occurs is a    *)
(* dyadic rational that a double holds exactly.  The model stores such a   *)
(* value v as the integer v * Scale, Scale = 2^FracBits, and tick is only  *)
(* taken while two further halvings of every velocity stay exact.          *)
(*                                                                         *)
(* Particle(x, y, 0, 0) at line 83 passes no colour although the dataclass *)
(* has five fields without defaults; the model carries the missing colour  *)
(* as NoColour so that the engine the rest of the code works on exists.    *)
(***************************************************************************)
EXTENDS Integers, Sequences, FiniteSets, TLC

\* ---------------------------------------------------------------- bounds
FracBits == 6
MaxTicks == 10
MaxGravityChanges == 1
GravityPeriod == 8
MaxAdds == 1
MaxSeed == 1

\* ------------------------------------------------------ program constants
GRID_MULTIPLIER == 256
WORD_BITS == 32
SEED_COLUMNS == 32
SEED_ROWS == 2

RECURSIVE Pow2(_)
Pow2(n) == IF n = 0 THEN 1 ELSE 2 * Pow2(n - 1)

\* one sub-cell unit of the program, in model units
Scale == Pow2(FracBits)
\* one cell, in model units
CellUnits == GRID_MULTIPLIER * Scale

Abs(n) == IF n < 0 THEN -n ELSE n
Max2(a, b) == IF a >= b THEN a ELSE b
Min2(a, b) == IF a <= b THEN a ELSE b

\* Python int(a / b) for b > 0: truncation toward zero
PyInt(a, b) == IF a >= 0 THEN a \div b ELSE -((-a) \div b)

\* int(v / GRID_MULTIPLIER) of a position v (model units)
Cell(v) == PyInt(v, CellUnits)

NoColour == <<>>

\* ------------------------------------------------------------ the bitmap
\* numpy uint32 array: a function 0..len-1 -> word, a word being the function
\* from its bit positions 0..31 to whether the bit is set
ZeroWord == [b \in 0..(WORD_BITS - 1) |-> FALSE]
EmptyBitmap(len) == [i \in 0..(len - 1) |-> ZeroWord]
BitmapLen(bm) == Cardinality(DOMAIN bm)

\* numpy indexing bitmap[y]: negative indices count from the end,
\* anything outside -len..len-1 raises IndexError
IndexOK(bm, y) == y >= -BitmapLen(bm) /\ y < BitmapLen(bm)
WordIndex(bm, y) == IF y < 0 THEN y + BitmapLen(bm) ELSE y

\* the bit 1 << (x % 32)
BitOf(x) == x % WORD_BITS

get_pixel(bm, x, y) ==
    IF IndexOK(bm, y)
    THEN [err |-> FALSE, val |-> bm[WordIndex(bm, y)][BitOf(x)]]
    ELSE [err |-> TRUE, val |-> FALSE]

set_pixel(bm, x, y) ==
    IF IndexOK(bm, y)
    THEN [err |-> FALSE,
          bm |-> [bm EXCEPT ![WordIndex(bm, y)][BitOf(x)] = TRUE]]
    ELSE [err |-> TRUE, bm |-> bm]

\* bitmap[y] &= (1 << (x % 32)): the complement left out
clear_pixel_NoComplement(bm, x, y) ==
    IF IndexOK(bm, y)
    THEN [err |-> FALSE,
          bm |-> [bm EXCEPT ![WordIndex(bm, y)] =
                     [b \in 0..(WORD_BITS - 1) |-> b = BitOf(x) /\ @[b]]]]
    ELSE [err |-> TRUE, bm |-> bm]

clear_pixel(bm, x, y) ==
    IF IndexOK(bm, y)
    THEN [err |-> FALSE,
          bm |-> [bm EXCEPT ![WordIndex(bm, y)][BitOf(x)] = FALSE]]
    ELSE [err |-> TRUE, bm |-> bm]

\* ------------------------------------------------------------- particles
Particle(x, y, vx, vy, c) == [x |-> x, y |-> y, vx |-> vx, vy |-> vy, c |-> c]

\* add_particle on the pair (particles, bitmap); the append happens before
\* set_pixel can raise
add_particle(ps, bm, p) ==
    LET r == set_pixel(bm, Cell(p.x), Cell(p.y))
    IN  [particles |-> Append(ps, p), bitmap |-> r.bm, err |-> r.err]

\* the k-th Particle of init_particles (k = 0..63): x outer, y inner
SeedParticle(k) ==
    Particle((k \div SEED_ROWS) * CellUnits, (k % SEED_ROWS) * CellUnits,
             0, 0, NoColour)

\* one iteration of the loops of init_particles; s = [particles, bitmap, err]
InitStep(s, k) ==
    IF s.err THEN s ELSE add_particle(s.particles, s.bitmap, SeedParticle(k))

\* iterations lo..hi in order (the range is halved to keep evaluation shallow)
RECURSIVE InitLoop(_, _, _)
InitLoop(s, lo, hi) ==
    IF s.err THEN s
    ELSE IF lo = hi THEN InitStep(s, lo)
    ELSE LET mid == (lo + hi) \div 2
         IN  InitLoop(InitLoop(s, lo, mid), mid + 1, hi)

init_particles(bm) ==
    InitLoop([particles |-> <<>>, bitmap |-> bm, err |-> FALSE],
             0, SEED_COLUMNS * SEED_ROWS - 1)

\* ------------------------------------------------------------ the engine
NoEngine(w, h, why) ==
    [status |-> why, req |-> <<w, h>>, width |-> 0, height |-> 0,
     pwidth |-> 0, pheight |-> 0, gravity |-> <<0, 0, 0>>,
     grav_scale |-> 1, bounce_scale |-> <<1, 2>>, simtime |-> 0,
     bitmap |-> EmptyBitmap(0), particles |-> <<>>, log |-> <<>>]

\* Simulation.__init__
create(w, h) ==
    IF w % 32 /= 0 \/ h % 32 /= 0
    THEN NoEngine(w, h, "ValueError")
    ELSE LET len == (h * w) \div 32
         IN  IF len < 0
             THEN NoEngine(w, h, "ValueError")
             ELSE LET r == init_particles(EmptyBitmap(len))
                  IN  IF r.err
                      THEN NoEngine(w, h, "IndexError")
                      ELSE [status |-> "ok", req |-> <<w, h>>,
                            width |-> w, height |-> h,
                            pwidth |-> (w * GRID_MULTIPLIER - GRID_MULTIPLIER) * Scale,
                            pheight |-> (h * GRID_MULTIPLIER - GRID_MULTIPLIER) * Scale,
                            gravity |-> <<0, 0, 0>>,
                            grav_scale |-> 1, bounce_scale |-> <<1, 2>>,
                            simtime |-> 0,
                            bitmap |-> r.bitmap, particles |-> r.particles,
                            log |-> <<>>]

\* ------------------------------------------------------------------ tick
\* bounce(n) = (-n) * self.bounce_scale, bounce_scale held as <<num, den>>
bounce(n, bs) == ((-n) * bs[1]) \div bs[2]

\* min(v, GRID_MULTIPLIER): the lower limit left out
clamp_NoLower(v) == Min2(v, GRID_MULTIPLIER * Scale)

\* the clamp with twice the limit
clamp_TwoCells(v) ==
    Max2(Min2(v, 2 * GRID_MULTIPLIER * Scale), -(2 * GRID_MULTIPLIER * Scale))

\* max(min(v, GRID_MULTIPLIER), -GRID_MULTIPLIER)
clamp(v) == Max2(Min2(v, GRID_MULTIPLIER * Scale), -(GRID_MULTIPLIER * Scale))

\* ax, ay, az, raz of lines 120-127, in model units
TickAz(e) == (Abs(e.gravity[3] * e.grav_scale) * Scale) \div 8
TickAx(e) == e.gravity[1] * e.grav_scale * Scale - TickAz(e)
TickAy(e) == e.gravity[2] * e.grav_scale * Scale - TickAz(e)
TickRaz(e) == (TickAz(e) * 5) \div 2

\* random.randint(0, raz) raises ValueError unless raz is a whole number
RandintOK(raz) == raz % Scale = 0

\* The module-level generator of `random` is a deterministic generator whose
\* state is seeded from the environment when the module is imported.  The
\* model keeps that state as a number of 0..MaxSeed; Draw is the outcome of
\* the k-th call of random.randint(0, raz) in a tick (k = 0, 1, ...), some
\* value of 0..raz, and NextRng the generator state after the tick.
\* random.randint(0, raz + 1): the upper end off by one
Draw_UpperOffByOne(seed, k, raz) == ((seed * (k + 1)) % (raz \div Scale + 2)) * Scale

Draw(seed, k, raz) == ((seed * (k + 1)) % (raz \div Scale + 1)) * Scale
NextRng(seed) == (seed + 1) % (MaxSeed + 1)

\* lines 135-141 for the i-th particle
VelocityStep(p, i, ax, ay, raz, seed) ==
    [p EXCEPT !.vx = clamp(p.vx + ax + Draw(seed, 2 * (i - 1), raz)),
              !.vy = clamp(p.vy + ay + Draw(seed, 2 * (i - 1) + 1, raz))]

\* lines 132-141: the velocity pass over particles lo..hi (the range is
\* halved to keep evaluation shallow; the steps are independent)
RECURSIVE VelocityPass(_, _, _, _, _, _, _)
\* the velocity pass handing the particles back in reverse order
VelocityPass_Reversed(ps, lo, hi, ax, ay, raz, seed) ==
    IF lo > hi THEN <<>>
    ELSE IF lo = hi THEN <<VelocityStep(ps[lo], lo, ax, ay, raz, seed)>>
    ELSE LET mid == (lo + hi) \div 2
         IN  VelocityPass(ps, mid + 1, hi, ax, ay, raz, seed)
                \o VelocityPass(ps, lo, mid, ax, ay, raz, seed)

VelocityPass(ps, lo, hi, ax, ay, raz, seed) ==
    IF lo > hi THEN <<>>
    ELSE IF lo = hi THEN <<VelocityStep(ps[lo], lo, ax, ay, raz, seed)>>
    ELSE LET mid == (lo + hi) \div 2
         IN  VelocityPass(ps, lo, mid, ax, ay, raz, seed)
                \o VelocityPass(ps, mid + 1, hi, ax, ay, raz, seed)

\* lines 155-162 / 165-172: which bound, if any, the candidate n hits
\* the bounds test with n > pmax for the upper bound
BoundHit_Strict(n, pmax) ==
    IF n < 0 THEN "min" ELSE IF n > pmax THEN "max" ELSE "none"

BoundHit(n, pmax) ==
    IF n < 0 THEN "min" ELSE IF n >= pmax THEN "max" ELSE "none"

\* the bounds check without its elif branch
BoundPos_NoUpper(n, pmax) == IF n < 0 THEN 0 ELSE n

BoundPos(n, pmax) ==
    IF n < 0 THEN 0 ELSE IF n >= pmax THEN pmax ELSE n

\* the bounds check bouncing at the lower bound only
BoundVel_LowerOnly(v, n, pmax, bs) ==
    IF n < 0 THEN bounce(v, bs) ELSE v

BoundVel(v, n, pmax, bs) ==
    IF BoundHit(n, pmax) = "none" THEN v ELSE bounce(v, bs)

\* idx of lines 177-178
\* the index with a row stride of one word's bits instead of the width
Idx_WordStride(x, y, w) == Cell(y) * WORD_BITS + Cell(x)

Idx(x, y, w) == Cell(y) * w + Cell(x)

Outcome(nx, ny, vx, vy, err, kind) ==
    [nx |-> nx, ny |-> ny, vx |-> vx, vy |-> vy, err |-> err, kind |-> kind]

\* the diagonal collision with abs(vx) > abs(vy): a tie tries y first
Diagonal_TiesToY(bm, p, nx, ny, vx, vy, bs) ==
    LET gx == get_pixel(bm, Cell(nx), Cell(p.y))
        gy == get_pixel(bm, Cell(p.x), Cell(ny))
        slideX == Outcome(nx, p.y, vx, bounce(vy, bs), FALSE, "slide_x")
        slideY == Outcome(p.x, ny, bounce(vx, bs), vy, FALSE, "slide_y")
        block == Outcome(p.x, p.y, bounce(vx, bs), bounce(vy, bs), FALSE, "block")
        fail == Outcome(nx, ny, vx, vy, TRUE, "error")
    IN  IF Abs(vx) > Abs(vy)
        THEN IF gx.err THEN fail
             ELSE IF ~gx.val THEN slideX
             ELSE IF gy.err THEN fail
             ELSE IF ~gy.val THEN slideY
             ELSE block
        ELSE IF gy.err THEN fail
             ELSE IF ~gy.val THEN slideY
             ELSE IF gx.err THEN fail
             ELSE IF ~gx.val THEN slideX
             ELSE block

\* lines 195-224: the diagonal collision, x or y tried first
Diagonal(bm, p, nx, ny, vx, vy, bs) ==
    LET gx == get_pixel(bm, Cell(nx), Cell(p.y))
        gy == get_pixel(bm, Cell(p.x), Cell(ny))
        slideX == Outcome(nx, p.y, vx, bounce(vy, bs), FALSE, "slide_x")
        slideY == Outcome(p.x, ny, bounce(vx, bs), vy, FALSE, "slide_y")
        block == Outcome(p.x, p.y, bounce(vx, bs), bounce(vy, bs), FALSE, "block")
        fail == Outcome(nx, ny, vx, vy, TRUE, "error")
    IN  IF Abs(vx) >= Abs(vy)
        THEN IF gx.err THEN fail
             ELSE IF ~gx.val THEN slideX
             ELSE IF gy.err THEN fail
             ELSE IF ~gy.val THEN slideY
             ELSE block
        ELSE IF gy.err THEN fail
             ELSE IF ~gy.val THEN slideY
             ELSE IF gx.err THEN fail
             ELSE IF ~gx.val THEN slideX
             ELSE block

\* lines 175-224: collision detection for particle p with candidate (nx, ny)
\* and velocity (vx, vy) after the bounds check
Collide(bm, p, nx, ny, vx, vy, w, bs) ==
    LET oidx == Idx(p.x, p.y, w)
        nidx == Idx(nx, ny, w)
        d == Abs(nidx - oidx)
        g == get_pixel(bm, Cell(nx), Cell(ny))
    IN  IF oidx = nidx THEN Outcome(nx, ny, vx, vy, FALSE, "same")
        ELSE IF g.err THEN Outcome(nx, ny, vx, vy, TRUE, "error")
        ELSE IF ~g.val THEN Outcome(nx, ny, vx, vy, FALSE, "free")
        ELSE IF d = 1 THEN Outcome(p.x, ny, bounce(vx, bs), vy, FALSE, "x")
        ELSE IF d = w THEN Outcome(nx, p.y, vx, bounce(vy, bs), FALSE, "y")
        ELSE Diagonal(bm, p, nx, ny, vx, vy, bs)

\* what the position pass did to one particle, kept for the properties
LogEntry(p, nx0, ny0, pw, ph, w, bx, by, o) ==
    [ox |-> p.x, oy |-> p.y, cvx |-> p.vx, cvy |-> p.vy,
     candx |-> nx0, candy |-> ny0,
     bx |-> BoundHit(nx0, pw), by |-> BoundHit(ny0, ph),
     tx |-> bx, ty |-> by,
     d |-> Abs(Idx(bx, by, w) - Idx(p.x, p.y, w)),
     kind |-> o.kind, nx |-> o.nx, ny |-> o.ny, vx |-> o.vx, vy |-> o.vy]

\* the position step with collisions looked up in the bitmap as it was when
\* the tick began
PositionStep_StaleBitmap(s, i, e) ==
    LET p == s.particles[i]
        bs == e.bounce_scale
        nx0 == p.x + p.vx
        ny0 == p.y + p.vy
        nx1 == BoundPos(nx0, e.pwidth)
        vx1 == BoundVel(p.vx, nx0, e.pwidth, bs)
        ny1 == BoundPos(ny0, e.pheight)
        vy1 == BoundVel(p.vy, ny0, e.pheight, bs)
        o == Collide(e.bitmap, p, nx1, ny1, vx1, vy1, e.width, bs)
        bounced == [p EXCEPT !.vx = o.vx, !.vy = o.vy]
        moved == [bounced EXCEPT !.x = o.nx, !.y = o.ny]
        c == clear_pixel(s.bitmap, Cell(p.x), Cell(p.y))
        t == set_pixel(c.bm, Cell(o.nx), Cell(o.ny))
        entry == LogEntry(p, nx0, ny0, e.pwidth, e.pheight, e.width, nx1, ny1, o)
    IN  IF s.err THEN s
        ELSE IF o.err \/ c.err
        THEN [s EXCEPT !.particles[i] = bounced, !.err = TRUE]
        ELSE [particles |-> [s.particles EXCEPT ![i] = moved],
              bitmap |-> t.bm,
              err |-> t.err,
              log |-> Append(s.log, entry)]

\* lines 149-231 for the i-th particle; s = [particles, bitmap, err, log]
PositionStep(s, i, e) ==
    LET p == s.particles[i]
        bs == e.bounce_scale
        nx0 == p.x + p.vx
        ny0 == p.y + p.vy
        nx1 == BoundPos(nx0, e.pwidth)
        vx1 == BoundVel(p.vx, nx0, e.pwidth, bs)
        ny1 == BoundPos(ny0, e.pheight)
        vy1 == BoundVel(p.vy, ny0, e.pheight, bs)
        o == Collide(s.bitmap, p, nx1, ny1, vx1, vy1, e.width, bs)
        bounced == [p EXCEPT !.vx = o.vx, !.vy = o.vy]
        moved == [bounced EXCEPT !.x = o.nx, !.y = o.ny]
        c == clear_pixel(s.bitmap, Cell(p.x), Cell(p.y))
        t == set_pixel(c.bm, Cell(o.nx), Cell(o.ny))
        entry == LogEntry(p, nx0, ny0, e.pwidth, e.pheight, e.width, nx1, ny1, o)
    IN  IF s.err THEN s
        ELSE IF o.err \/ c.err
        THEN [s EXCEPT !.particles[i] = bounced, !.err = TRUE]
        ELSE [particles |-> [s.particles EXCEPT ![i] = moved],
              bitmap |-> t.bm,
              err |-> t.err,
              log |-> Append(s.log, entry)]

\* the position pass over particles lo..hi in order; an IndexError ends it
\* (the range is halved, and s looked at first, to keep evaluation shallow)
RECURSIVE PositionPass(_, _, _, _)
PositionPass(s, lo, hi, e) ==
    IF s.err \/ lo > hi THEN s
    ELSE IF lo = hi THEN PositionStep(s, lo, e)
    ELSE LET mid == (lo + hi) \div 2
         IN  PositionPass(PositionPass(s, lo, mid, e), mid + 1, hi, e)

\* Simulation.tick on engine e with generator state seed; the field log is
\* not program state: it records what this tick did to each particle
tick(e, seed) ==
    LET t == [e EXCEPT !.simtime = @ + 1]
        raz == TickRaz(e)
    IN  IF Len(e.particles) > 0 /\ ~RandintOK(raz)
        THEN [t EXCEPT !.status = "ValueError", !.log = <<>>]
        ELSE LET vs == VelocityPass(e.particles, 1, Len(e.particles), TickAx(e), TickAy(e), raz, seed)
                 r == PositionPass([particles |-> vs, bitmap |-> e.bitmap,
                                    err |-> FALSE, log |-> <<>>],
                                   1, Len(e.particles), e)
             IN  [t EXCEPT !.particles = r.particles,
                           !.bitmap = r.bitmap,
                           !.status = IF r.err THEN "IndexError" ELSE "ok",
                           !.log = r.log]

\* both bounces a tick can apply to a velocity component stay exact
TickExact(e) ==
    \A i \in 1..Len(e.particles) :
        /\ e.particles[i].vx % 4 = 0
        /\ e.particles[i].vy % 4 = 0

\* ------------------------------------------------------------ the system
VARIABLES sim, rng, nticks, ngrav, nadds

vars == <<sim, rng, nticks, ngrav, nadds>>

\* arguments the host passes to Simulation(width, height)
Widths == {-32, 0, 16, 32, 64}
Heights == {-32, 0, 32, 48}

\* gravity vectors the host assigns (main.py: on_mouse_motion)
Gravities ==
    { <<0, 0, 0>>, <<300, 0, 0>>, <<-300, -300, 0>>, <<0, 300, 0>>,
      <<96, 40, 16>>, <<0, 0, 1>>, <<-300, 300, 0>>, <<-200, 300, 0>> }

\* particles the host adds: one into a seeded cell, one next to the far corner
AddedParticles ==
    { Particle(3 * CellUnits + 128 * Scale, 1 * CellUnits, 0, -40 * Scale, <<0, 255, 0>>),
      Particle(30 * CellUnits, 30 * CellUnits, 300 * Scale, 300 * Scale, <<255, 0, 255>>) }

Init ==
    /\ \E w \in Widths, h \in Heights : sim = create(w, h)
    /\ rng \in 0..MaxSeed
    /\ nticks = 0
    /\ ngrav = 0
    /\ nadds = 0

\* self.sim.tick() (main.py: update)
Tick ==
    /\ sim.status = "ok"
    /\ nticks < MaxTicks
    /\ TickExact(sim)
    /\ sim' = tick(sim, rng)
    /\ rng' = NextRng(rng)
    /\ nticks' = nticks + 1
    /\ UNCHANGED <<ngrav, nadds>>

\* self.sim.gravity = [...] (main.py: on_mouse_motion); the host is taken to
\* move the pointer at most MaxGravityChanges times, on a tick count that
\* is a multiple of GravityPeriod
SetGravity ==
    /\ sim.status = "ok"
    /\ ngrav < MaxGravityChanges
    /\ sim.simtime % GravityPeriod = 0
    /\ \E g \in Gravities :
          /\ g /= sim.gravity
          /\ sim' = [sim EXCEPT !.gravity = g]
    /\ ngrav' = ngrav + 1
    /\ UNCHANGED <<rng, nticks, nadds>>

\* sim.add_particle(p), before the simulation runs
AddParticle ==
    /\ sim.status = "ok"
    /\ sim.simtime = 0
    /\ nadds < MaxAdds
    /\ \E p \in AddedParticles :
          LET r == add_particle(sim.particles, sim.bitmap, p)
          IN  sim' = [sim EXCEPT !.particles = r.particles,
                                 !.bitmap = r.bitmap,
                                 !.status = IF r.err THEN "IndexError" ELSE "ok"]
    /\ nadds' = nadds + 1
    /\ UNCHANGED <<rng, nticks, ngrav>>

Next == Tick \/ SetGravity \/ AddParticle

Spec == Init /\ [][Next]_vars

\* ------------------------------------------------------------ properties
Live == sim.status = "ok"
ValidDims(w, h) == w > 0 /\ h > 0 /\ w % 32 = 0 /\ h % 32 = 0
ValidEngine == Live /\ ValidDims(sim.req[1], sim.req[2])
FreshlyCreated == nticks = 0 /\ nadds = 0 /\ ngrav = 0
AfterTick == Live /\ sim.simtime >= 1
Particles == 1..Len(sim.particles)
GridCells == (0..(sim.width - 1)) \X (0..(sim.height - 1))
CellOf(p) == <<Cell(p.x), Cell(p.y)>>
ParticleCells == {CellOf(sim.particles[i]) : i \in Particles}
ReadsSet(bm, c) == get_pixel(bm, c[1], c[2]).val

\* C1: on every engine made by create with valid dimensions, right after
\* create and after every tick, a cell reads as set iff exactly one particle
\* is in it (no two particles share a cell, no set bit without a particle).
C1_BitmapMatchesParticles ==
    (ValidEngine /\ nadds = 0) =>
        /\ Cardinality(ParticleCells) = Len(sim.particles)
        /\ {c \in GridCells : ReadsSet(sim.bitmap, c)} = ParticleCells

\* C2: after any tick every particle has 0 <= x <= pwidth and
\* 0 <= y <= pheight, also where a collision restored the old position.
C2_PositionsInBounds ==
    (AfterTick /\ ValidEngine) =>
        \A i \in Particles :
            /\ 0 <= sim.particles[i].x /\ sim.particles[i].x <= sim.pwidth
            /\ 0 <= sim.particles[i].y /\ sim.particles[i].y <= sim.pheight

\* C2 witness: a tick in which one particle was clamped at the upper bound
\* and another was put back to its old position by a collision
C2_Witness ==
    /\ AfterTick /\ ValidEngine
    /\ \E i \in 1..Len(sim.log) :
          sim.log[i].bx = "max" /\ sim.particles[i].x = sim.pwidth
    /\ \E i \in 1..Len(sim.log) :
          /\ sim.log[i].kind \in {"x", "block"}
          /\ sim.particles[i].x = sim.log[i].ox

\* C3: after every tick every particle has |vx| <= 256 and |vy| <= 256; the
\* bounces that follow the clamp never take a component out of that range.
C3_VelocityClamped ==
    AfterTick =>
        \A i \in Particles :
            /\ Abs(sim.particles[i].vx) <= GRID_MULTIPLIER * Scale
            /\ Abs(sim.particles[i].vy) <= GRID_MULTIPLIER * Scale

\* C3 witness: a tick that clamped a velocity to the limit and then bounced it
C3_Witness ==
    /\ AfterTick
    /\ \E i \in 1..Len(sim.log) :
          /\ sim.log[i].cvx = -(GRID_MULTIPLIER * Scale)
          /\ sim.log[i].bx = "min"
          /\ sim.particles[i].vx = (GRID_MULTIPLIER * Scale) \div 2

\* C4: a particle whose candidate move is a pure horizontal step (d == 1)
\* into an occupied cell keeps its x, and its vx ends as minus bounceScale
\* times the clamped vx of that tick's velocity pass, in every column.
C4_HorizontalBlockBounces ==
    AfterTick =>
        \A i \in 1..Len(sim.log) :
            sim.log[i].kind = "x" =>
                /\ sim.particles[i].x = sim.log[i].ox
                /\ sim.particles[i].vx = bounce(sim.log[i].cvx, sim.bounce_scale)

\* C5: create fails with the configuration error and produces no engine
\* whenever a dimension is not a positive multiple of 32 (0 and negative
\* multiples included).
C5_InvalidDimsRejected ==
    ~ValidDims(sim.req[1], sim.req[2]) => sim.status = "ValueError"

\* C6: for valid dimensions create returns an engine with zero gravity,
\* bounceScale 0.5, gravityScale 1, tickCount 0 and exactly 2*width particles
\* at rest, one in every cell of rows 0 and 1, the bitmap set exactly there.
C6_CreateSeedsTwoFullRows ==
    (FreshlyCreated /\ ValidDims(sim.req[1], sim.req[2])) =>
        /\ Live
        /\ sim.gravity = <<0, 0, 0>>
        /\ sim.bounce_scale = <<1, 2>>
        /\ sim.grav_scale = 1
        /\ sim.simtime = 0
        /\ Len(sim.particles) = 2 * sim.req[1]
        /\ \A i \in Particles : sim.particles[i].vx = 0 /\ sim.particles[i].vy = 0
        /\ {<<sim.particles[i].x, sim.particles[i].y>> : i \in Particles}
              = {<<cx * CellUnits, cy * CellUnits>> :
                    cx \in 0..(sim.req[1] - 1), cy \in 0..1}
        /\ {c \in GridCells : ReadsSet(sim.bitmap, c)}
              = (0..(sim.req[1] - 1)) \X (0..1)

\* the seeded state of create(32, 32), written out
SeededPositions ==
    \A i \in Particles :
        /\ sim.particles[i].x = ((i - 1) \div 2) * CellUnits
        /\ sim.particles[i].y = ((i - 1) % 2) * CellUnits
SeededBitmap ==
    sim.bitmap = [y \in 0..31 |-> [b \in 0..31 |-> y \in {0, 1}]]

\* C7: on create(32, 32) with gravity left at (0,0,0), after each of ten
\* ticks every seeded particle is at its initial position and the bitmap is
\* unchanged.
C7_RestIsFixedPoint ==
    (Live /\ sim.req = <<32, 32>> /\ ngrav = 0 /\ nadds = 0) =>
        /\ Len(sim.particles) = 64
        /\ SeededPositions
        /\ SeededBitmap

\* C7 witness: the tenth tick at rest
C7_Witness ==
    /\ Live /\ sim.req = <<32, 32>> /\ ngrav = 0 /\ nadds = 0
    /\ sim.simtime = 10
    /\ Len(sim.log) = 64

\* two tick results agree in everything but the tick's own log
SameOutcome(a, b) ==
    /\ a.particles = b.particles
    /\ a.bitmap = b.bitmap
    /\ a.status = b.status
    /\ a.simtime = b.simtime

\* C8: with gravity (0,0,0) the next state is a function of the current
\* state alone: whatever the generator's state, a tick yields the same
\* positions, velocities and bitmap.
C8_DeterministicAtZeroGravity ==
    (Live /\ sim.gravity = <<0, 0, 0>> /\ TickExact(sim)) =>
        \A s \in 1..MaxSeed : SameOutcome(tick(sim, 0), tick(sim, s))

\* C8 witness: a zero-gravity state in motion (a collision in the last tick)
C8_Witness ==
    /\ Live /\ sim.gravity = <<0, 0, 0>> /\ TickExact(sim)
    /\ sim.simtime >= 1
    /\ \E i \in 1..Len(sim.log) : sim.log[i].kind = "y"
    /\ \E i \in Particles : sim.particles[i].vy /= 0

\* cells the bitmap operations are probed with
ProbeColumns == {0, 8, 31, 32, 40, 63}
ProbeRows == {0, 5, 31}
ProbeCells == {c \in ProbeColumns \X ProbeRows : c \in GridCells}

\* C9: for any width that is a multiple of 32 distinct in-range cells map to
\* distinct bits: set(c) changes get only for c, clear(c) clears only c.
C9_DistinctCellsDistinctBits ==
    ValidEngine =>
        \A c \in ProbeCells :
            /\ ReadsSet(set_pixel(sim.bitmap, c[1], c[2]).bm, c)
            /\ ~ReadsSet(clear_pixel(sim.bitmap, c[1], c[2]).bm, c)
            /\ \A o \in ProbeCells \ {c} :
                  /\ ReadsSet(set_pixel(sim.bitmap, c[1], c[2]).bm, o)
                        = ReadsSet(sim.bitmap, o)
                  /\ ReadsSet(clear_pixel(sim.bitmap, c[1], c[2]).bm, o)
                        = ReadsSet(sim.bitmap, o)

\* coordinates outside the grid the bitmap operations are probed with
OutOfRangeCells ==
    {c \in {-1, 0, 8, sim.width, sim.width + 8} \X {-1, 0, 1, sim.height} :
        c \notin GridCells}

\* C10: get, set and clear with a coordinate outside the grid end in a fatal
\* error; they never read or modify the bit of an in-range cell.
C10_OutOfRangeIsFatal ==
    ValidEngine =>
        \A c \in OutOfRangeCells :
            /\ get_pixel(sim.bitmap, c[1], c[2]).err
            /\ set_pixel(sim.bitmap, c[1], c[2]).err
            /\ clear_pixel(sim.bitmap, c[1], c[2]).err

\* the cells of one log entry: where the particle was, where its candidate
\* move (after the bounds check) pointed, and where it was committed
Entries == 1..Len(sim.log)
OldCell(l) == <<Cell(l.ox), Cell(l.oy)>>
TargetCell(l) == <<Cell(l.tx), Cell(l.ty)>>
NewCell(l) == <<Cell(l.nx), Cell(l.ny)>>
Vacated(l) == NewCell(l) /= OldCell(l)
Aimed(l, c) == TargetCell(l) = c /\ OldCell(l) /= c
Blocked(l) == l.kind \in {"x", "y", "slide_x", "slide_y", "block"}

\* C11: the position pass works on the live bitmap in sequence order.  For
\* particles A, B of one tick and a cell c that B's candidate move enters:
\* if A precedes B and left c in this tick (and nobody took c in between),
\* B finds c free and enters it; if B precedes A and A is still in c, B is
\* blocked and stays out of c; and a cell an earlier particle entered in
\* this tick blocks a later particle.
C11_OrderDecidesCollisions ==
    (AfterTick /\ ValidEngine /\ nadds = 0) =>
        \A b \in {e \in Entries : TargetCell(sim.log[e]) /= OldCell(sim.log[e])} :
          \A a \in Entries \ {b} :
            LET A == sim.log[a]
                B == sim.log[b]
            IN  /\ (/\ a < b
                    /\ Vacated(A)
                    /\ Aimed(B, OldCell(A))
                    /\ \A k \in Entries :
                          (k < b /\ k /= a) => NewCell(sim.log[k]) /= OldCell(A))
                      => (B.kind = "free" /\ NewCell(B) = OldCell(A))
                /\ (b < a /\ Aimed(B, OldCell(A)))
                      => (Blocked(B) /\ NewCell(B) /= OldCell(A))
                /\ (a < b /\ Vacated(A) /\ Aimed(B, NewCell(A)))
                      => (Blocked(B) /\ NewCell(B) /= NewCell(A))

\* C11 witness: one tick in which a later particle entered the cell an
\* earlier one had just left, an earlier particle was blocked by a later
\* one still in its cell, and a later particle was blocked by an earlier
\* one that had just entered
C11_Witness ==
    /\ AfterTick /\ ValidEngine /\ nadds = 0
    /\ \E a, b \in Entries :
          /\ a < b
          /\ Vacated(sim.log[a])
          /\ Aimed(sim.log[b], OldCell(sim.log[a]))
          /\ NewCell(sim.log[b]) = OldCell(sim.log[a])
    /\ \E a, b \in Entries :
          /\ b < a
          /\ Aimed(sim.log[b], OldCell(sim.log[a]))
          /\ Blocked(sim.log[b])
    /\ \E a, b \in Entries :
          /\ a < b
          /\ Vacated(sim.log[a])
          /\ Aimed(sim.log[b], NewCell(sim.log[a]))
          /\ Blocked(sim.log[b])

\* whether another particle was in cell c when the i-th particle was
\* processed: an earlier one committed there, or a later one not yet moved
OccupiedAt(i, c) ==
    \E k \in Entries :
        \/ k < i /\ NewCell(sim.log[k]) = c
        \/ k > i /\ OldCell(sim.log[k]) = c

\* the velocity of a log entry after the bounds check
BoundedVx(l) == IF l.bx = "none" THEN l.cvx ELSE bounce(l.cvx, sim.bounce_scale)
BoundedVy(l) == IF l.by = "none" THEN l.cvy ELSE bounce(l.cvy, sim.bounce_scale)

\* the reference resolution of a diagonal collision: old position (x, y),
\* candidate (nx, ny), velocity (vx, vy), the two side cells free or not
DiagonalReference(x, y, nx, ny, vx, vy, freeX, freeY, bs) ==
    LET slideX == [nx |-> nx, ny |-> y, vx |-> vx, vy |-> bounce(vy, bs)]
        slideY == [nx |-> x, ny |-> ny, vx |-> bounce(vx, bs), vy |-> vy]
        both == [nx |-> x, ny |-> y, vx |-> bounce(vx, bs), vy |-> bounce(vy, bs)]
    IN  IF Abs(vx) >= Abs(vy)
        THEN (IF freeX THEN slideX ELSE IF freeY THEN slideY ELSE both)
        ELSE (IF freeY THEN slideY ELSE IF freeX THEN slideX ELSE both)

SameMove(o, r) == o.nx = r.nx /\ o.ny = r.ny /\ o.vx = r.vx /\ o.vy = r.vy

DiagonalMove(l) ==
    /\ Cell(l.tx) /= Cell(l.ox)
    /\ Cell(l.ty) /= Cell(l.oy)

\* a probe particle in cell (5, 5) of a fresh engine, placed so that any
\* velocity of ProbeSpeeds takes it one cell along dx and dy
ProbeSpeeds == {64 * Scale, 128 * Scale, 256 * Scale}
ProbeDirs == {-1, 1}
ProbeAt(d) == 5 * CellUnits + (IF d = 1 THEN 192 * Scale ELSE 32 * Scale)
ProbeBitmap(dx, dy, occX, occY) ==
    LET b0 == set_pixel(sim.bitmap, 5 + dx, 5 + dy).bm
        b1 == IF occX THEN set_pixel(b0, 5 + dx, 5).bm ELSE b0
    IN  IF occY THEN set_pixel(b1, 5, 5 + dy).bm ELSE b1

DiagonalTable ==
    \A dx, dy \in ProbeDirs, occX, occY \in BOOLEAN, sx, sy \in ProbeSpeeds :
        LET p == Particle(ProbeAt(dx), ProbeAt(dy), dx * sx, dy * sy, NoColour)
        IN  SameMove(Collide(ProbeBitmap(dx, dy, occX, occY), p,
                             p.x + p.vx, p.y + p.vy, p.vx, p.vy,
                             sim.width, sim.bounce_scale),
                     DiagonalReference(p.x, p.y, p.x + p.vx, p.y + p.vy,
                                       p.vx, p.vy, ~occX, ~occY,
                                       sim.bounce_scale))

\* C12: a diagonal candidate move into an occupied cell is resolved as the
\* reference says (dominant axis first, ties to x; slide along the free side
\* cell, else revert and bounce both), for every occupancy of the two side
\* cells and every velocity pair, and the particle never ends in the
\* occupied diagonal cell or in an occupied side cell.
C12_DiagonalMatchesReference ==
    /\ (ValidEngine /\ FreshlyCreated) => DiagonalTable
    /\ (AfterTick /\ ValidEngine /\ nadds = 0) =>
          \A i \in Entries :
              LET l == sim.log[i]
              IN  (DiagonalMove(l) /\ OccupiedAt(i, TargetCell(l))) =>
                    /\ SameMove(l, DiagonalReference(l.ox, l.oy, l.tx, l.ty,
                                   BoundedVx(l), BoundedVy(l),
                                   ~OccupiedAt(i, <<Cell(l.tx), Cell(l.oy)>>),
                                   ~OccupiedAt(i, <<Cell(l.ox), Cell(l.ty)>>),
                                   sim.bounce_scale))
                    /\ NewCell(l) /= TargetCell(l)
                    /\ ~OccupiedAt(i, NewCell(l))

\* occurrences of the single cases in the last tick
DiagonalCase(kind, xFirst) ==
    \E i \in Entries :
        /\ DiagonalMove(sim.log[i])
        /\ OccupiedAt(i, TargetCell(sim.log[i]))
        /\ sim.log[i].kind = kind
        /\ xFirst = (Abs(BoundedVx(sim.log[i])) >= Abs(BoundedVy(sim.log[i])))

\* C12 witness: a tick with a diagonal collision in which x was tried first,
\* its side cell was taken, and the particle slid along y instead
C12_Witness ==
    /\ AfterTick /\ ValidEngine /\ nadds = 0
    /\ DiagonalCase("slide_y", TRUE)

\* C13: no tunnelling.  In every tick every particle's cell changes by at
\* most 1 on each axis, whatever the gravity, and a particle that changes
\* cell ends in a cell whose occupancy this tick read as free.
C13_NoTunnelling ==
    AfterTick =>
        \A i \in Entries :
            LET l == sim.log[i]
            IN  /\ sim.particles[i].x = l.nx /\ sim.particles[i].y = l.ny
                /\ Abs(Cell(l.nx) - Cell(l.ox)) <= 1
                /\ Abs(Cell(l.ny) - Cell(l.oy)) <= 1
                /\ Vacated(l) =>
                      \/ l.kind = "free" /\ NewCell(l) = TargetCell(l)
                      \/ l.kind = "slide_x" /\ NewCell(l) = <<Cell(l.tx), Cell(l.oy)>>
                      \/ l.kind = "slide_y" /\ NewCell(l) = <<Cell(l.ox), Cell(l.ty)>>

\* C13 witness: under a gravity beyond the velocity limit, a second tick in
\* a row in which a particle at the limit moved on by exactly one cell
C13_Witness ==
    /\ AfterTick /\ sim.simtime >= 2
    /\ Abs(sim.gravity[2]) > GRID_MULTIPLIER
    /\ \E i \in Entries :
          /\ sim.log[i].cvy = GRID_MULTIPLIER * Scale
          /\ Cell(sim.log[i].ny) = Cell(sim.log[i].oy) + 1

\* the collision outcomes that bounce vx, and those that bounce vy
BouncesX == {"x", "slide_y", "block"}
BouncesY == {"y", "slide_x", "block"}

\* the bounds step of one axis as stated: old position o, velocity v after
\* the velocity pass, bound pmax; gives the candidate handed to the
\* collision step and the velocity after the bounds step
BoundsReference(o, v, pmax, bs) ==
    IF o + v < 0 THEN [pos |-> 0, vel |-> bounce(v, bs)]
    ELSE IF o + v >= pmax THEN [pos |-> pmax, vel |-> bounce(v, bs)]
    ELSE [pos |-> o + v, vel |-> v]

\* C14: the bounds step.  A candidate below 0 is replaced by 0 and one at or
\* beyond pwidth by pwidth, the velocity component being bounced once by the
\* bounds step in both cases; a candidate strictly inside is left alone with
\* its velocity; y likewise with pheight, each axis by itself.  The particle
\* is committed at that candidate unless the collision step reverts it.
C14_BoundaryBounce ==
    AfterTick =>
        \A i \in Entries :
            LET l == sim.log[i]
                rx == BoundsReference(l.ox, l.cvx, sim.pwidth, sim.bounce_scale)
                ry == BoundsReference(l.oy, l.cvy, sim.pheight, sim.bounce_scale)
            IN  /\ l.tx = rx.pos /\ l.ty = ry.pos
                /\ l.nx \in {rx.pos, l.ox} /\ l.ny \in {ry.pos, l.oy}
                /\ l.kind \in {"same", "free"} => (l.nx = rx.pos /\ l.ny = ry.pos)
                /\ l.vx = IF l.kind \in BouncesX
                          THEN bounce(rx.vel, sim.bounce_scale) ELSE rx.vel
                /\ l.vy = IF l.kind \in BouncesY
                          THEN bounce(ry.vel, sim.bounce_scale) ELSE ry.vel
                /\ sim.particles[i].vx = l.vx /\ sim.particles[i].vy = l.vy

\* C14 witness: a tick in which one particle was stopped at x = 0 with vx
\* bounced and vy untouched, and another at y = pheight with vy bounced and
\* vx untouched
C14_Witness ==
    /\ AfterTick
    /\ \E i \in Entries :
          /\ sim.log[i].candx < 0 /\ sim.log[i].nx = 0
          /\ sim.log[i].cvx /= 0
          /\ sim.log[i].vx = bounce(sim.log[i].cvx, sim.bounce_scale)
          /\ sim.log[i].candy > 0 /\ sim.log[i].candy < sim.pheight
          /\ sim.log[i].kind \in {"same", "free"}
          /\ sim.log[i].vy = sim.log[i].cvy
    /\ \E j \in Entries :
          /\ sim.log[j].candy >= sim.pheight /\ sim.log[j].ny = sim.pheight
          /\ sim.log[j].cvy /= 0
          /\ sim.log[j].vy = bounce(sim.log[j].cvy, sim.bounce_scale)
          /\ sim.log[j].candx >= 0 /\ sim.log[j].candx < sim.pwidth
          /\ sim.log[j].vx = sim.log[j].cvx

\* the colours of the particle sequence, in order
Colours(e) == [i \in 1..Len(e.particles) |-> e.particles[i].c]
IsPrefix(a, b) == Len(a) <= Len(b) /\ \A i \in 1..Len(a) : a[i] = b[i]

\* C15: a call of tick adds exactly 1 to simtime and leaves width, height,
\* pwidth, pheight, gravity, grav_scale, bounce_scale, the number of
\* particles, their order and their colours as they were; no other
\* operation changes simtime, and no operation removes a particle.
C15_TickFrame ==
    [][ /\ (nticks' = nticks + 1) =>
              /\ sim'.simtime = sim.simtime + 1
              /\ sim'.req = sim.req
              /\ sim'.width = sim.width /\ sim'.height = sim.height
              /\ sim'.pwidth = sim.pwidth /\ sim'.pheight = sim.pheight
              /\ sim'.gravity = sim.gravity
              /\ sim'.grav_scale = sim.grav_scale
              /\ sim'.bounce_scale = sim.bounce_scale
              /\ Len(sim'.particles) = Len(sim.particles)
              /\ Colours(sim') = Colours(sim)
        /\ (nticks' = nticks) => sim'.simtime = sim.simtime
        /\ sim'.simtime = nticks'
        /\ IsPrefix(Colours(sim), Colours(sim')) ]_vars

\* C15 witness: three ticks on an engine with an added particle, the last
\* of which moved particles and changed the bitmap
C15_Witness ==
    /\ AfterTick /\ sim.simtime = 3 /\ nticks = 3 /\ nadds = 1
    /\ \E i \in Entries : Vacated(sim.log[i])
    /\ sim.particles[Len(sim.particles)].c /= NoColour

\* C16: after add_particle(p) with p inside the grid, and after every later
\* tick, every set cell holds exactly one particle and every particle's
\* cell is set, also when p was added into a cell that was occupied.
C16_AddKeepsOccupancy ==
    (Live /\ sim.req = <<32, 32>> /\ nadds >= 1) =>
        /\ \A i, j \in Particles :
              i /= j => CellOf(sim.particles[i]) /= CellOf(sim.particles[j])
        /\ \A c \in GridCells :
              ReadsSet(sim.bitmap, c) <=> c \in ParticleCells

\* C17: in every state reached from the seeded one, a particle in the last
\* column has x = pwidth and a particle in the last row has y = pheight; a
\* candidate in the last column or row (a move into it or a tick at rest
\* there) takes the upper branch of the bounds check and has that velocity
\* component bounced, while a candidate in column 0 or row 0 is bounced only
\* if it is below 0.
C17_LastColumnPinned ==
    ValidEngine =>
        /\ \A i \in Particles :
              /\ Cell(sim.particles[i].x) = sim.width - 1
                    => sim.particles[i].x = sim.pwidth
              /\ Cell(sim.particles[i].y) = sim.height - 1
                    => sim.particles[i].y = sim.pheight
        /\ AfterTick =>
              \A i \in Entries :
                  LET l == sim.log[i]
                  IN  /\ (l.candx >= 0 /\ Cell(l.candx) = sim.width - 1)
                            => (l.bx = "max" /\ l.tx = sim.pwidth
                                /\ BoundedVx(l) = bounce(l.cvx, sim.bounce_scale))
                      /\ (l.candy >= 0 /\ Cell(l.candy) = sim.height - 1)
                            => (l.by = "max" /\ l.ty = sim.pheight
                                /\ BoundedVy(l) = bounce(l.cvy, sim.bounce_scale))
                      /\ (l.candx >= 0 /\ Cell(l.candx) = 0)
                            => (l.bx = "none" /\ BoundedVx(l) = l.cvx)
                      /\ (l.candy >= 0 /\ Cell(l.candy) = 0)
                            => (l.by = "none" /\ BoundedVy(l) = l.cvy)
                      /\ l.vx = (IF l.kind \in BouncesX
                                 THEN bounce(BoundedVx(l), sim.bounce_scale)
                                 ELSE BoundedVx(l))
                      /\ l.vy = (IF l.kind \in BouncesY
                                 THEN bounce(BoundedVy(l), sim.bounce_scale)
                                 ELSE BoundedVy(l))

\* C17 witness: a tick in which a seeded particle at rest in the last column
\* was bounced by the bounds check, one moving from the column before it
\* into the last column was bounced with its candidate exactly at pwidth,
\* and one moving inside column 0 was not
C17_Witness ==
    /\ AfterTick /\ ValidEngine
    /\ \E i \in Entries :
          /\ sim.log[i].ox = sim.pwidth /\ sim.log[i].cvx > 0
          /\ sim.log[i].bx = "max" /\ sim.log[i].nx = sim.pwidth
          /\ sim.log[i].vx = bounce(sim.log[i].cvx, sim.bounce_scale)
    /\ \E i \in Entries :
          /\ Cell(sim.log[i].ox) = sim.width - 2
          /\ sim.log[i].candx = sim.pwidth
          /\ sim.log[i].bx = "max"
    /\ \E i \in Entries :
          /\ Cell(sim.log[i].ox) = 0 /\ sim.log[i].cvx /= 0
          /\ sim.log[i].candx >= 0 /\ Cell(sim.log[i].candx) = 0
          /\ sim.log[i].vx = sim.log[i].cvx

\* the change of cell of a candidate move, per axis
StepX(l) == Cell(l.tx) - Cell(l.ox)
StepY(l) == Cell(l.ty) - Cell(l.oy)
Collided(l) == l.kind \in {"x", "y", "slide_x", "slide_y", "block"}

\* the index distance of every one-cell step inside the grid of the engine
IndexDistanceTable ==
    \A cx \in 0..(sim.width - 1), cy \in 0..(sim.height - 1), dx, dy \in {-1, 0, 1} :
        (cx + dx \in 0..(sim.width - 1) /\ cy + dy \in 0..(sim.height - 1)) =>
            LET d == Abs(Idx((cx + dx) * CellUnits, (cy + dy) * CellUnits, sim.width)
                           - Idx(cx * CellUnits, cy * CellUnits, sim.width))
            IN  /\ d = 1 <=> (Abs(dx) = 1 /\ dy = 0)
                /\ d = sim.width <=> (dx = 0 /\ Abs(dy) = 1)
                /\ (Abs(dx) = 1 /\ Abs(dy) = 1) => d \in {sim.width - 1, sim.width + 1}

\* C18: whenever a collision is resolved, d = 1 exactly for a step of one
\* cell along x alone, d = width exactly for a step of one cell along y
\* alone, and every other colliding move is a step of one cell on both axes
\* with d = width - 1 or width + 1; the single-axis branches are taken for
\* exactly those moves, so no move across a row end counts as horizontal.
C18_IndexDistanceUnambiguous ==
    /\ (ValidEngine /\ FreshlyCreated) => IndexDistanceTable
    /\ (AfterTick /\ ValidEngine) =>
          \A i \in Entries :
              LET l == sim.log[i]
              IN  Collided(l) =>
                    /\ l.d = 1 <=> (Abs(StepX(l)) = 1 /\ StepY(l) = 0)
                    /\ l.d = sim.width <=> (StepX(l) = 0 /\ Abs(StepY(l)) = 1)
                    /\ l.kind = "x" <=> l.d = 1
                    /\ l.kind = "y" <=> l.d = sim.width
                    /\ (l.d /= 1 /\ l.d /= sim.width) =>
                          /\ Abs(StepX(l)) = 1 /\ Abs(StepY(l)) = 1
                          /\ l.d \in {sim.width - 1, sim.width + 1}

\* C18 witness: a tick that resolved a horizontal, a vertical and a diagonal
\* collision
C18_Witness ==
    /\ AfterTick /\ ValidEngine
    /\ \E i \in Entries : sim.log[i].kind = "x" /\ sim.log[i].d = 1
    /\ \E i \in Entries : sim.log[i].kind = "y" /\ sim.log[i].d = sim.width
    /\ \E i \in Entries :
          /\ Collided(sim.log[i])
          /\ sim.log[i].d \in {sim.width - 1, sim.width + 1}

====
